---- MODULE Spec2Model ----
(***************************************************************************)
(* GrymSynth serving runtime.                                              *)
(*                                                                         *)
(*   SpecMemory : MemoryManager of utils/memory.py and                     *)
(*                MemoryMonitor.check_memory_requirements of               *)
(*                memory_utils.py, applied to every device state.          *)
(*   SpecWorker : the stdio worker of src/gama_operations.py (main and     *)
(*                MockGAMAProcessor): one JSON request per input line.     *)
(*   SpecServer : the HTTP API of src/app/api/server.py: the model cache   *)
(*                loaded_models, /models/load, /process/wav2vec2 and the   *)
(*                background load task.                                    *)
(*   SpecLoader : check_gpu_compatibility and load_audio_model of          *)
(*                model_config.py, on every device state.                  *)
(*   SpecDownload : download_file of download_pytorch.py, against every    *)
(*                answer of the server and every break of the connection.  *)
(***************************************************************************)
EXTENDS Integers, Sequences, FiniteSets

VARIABLES
    \* ---- stdio worker (src/gama_operations.py) ----
    stdin,        \* the input lines of sys.stdin, in order
    pos,          \* number of lines the for loop has taken from stdin
    pc,           \* position of main(): "read", "dispatch", "respond", "stopped", "crashed"
    request,      \* request_id, operation, data of the line being served
    result,       \* local result of main()
    error,        \* local error of main()
    processor,    \* the active MockGAMAProcessor
    stdout,       \* response lines written to sys.stdout
    stderr,       \* diagnostics written to sys.stderr
    \* ---- HTTP server (src/app/api/server.py) ----
    loaded_models,    \* the model cache: name -> handle of the stored model, 0 = no entry
    background_tasks, \* load_model_task calls added by /models/load, not yet run
    backend_loads,    \* per name: outcomes of the from_pretrained calls made so far
    event_loop,       \* what the event loop thread is inside of between two steps:
                      \* "idle", or the name whose background load_model_task is running
    responses,        \* HTTP responses sent so far
    \* ---- memory manager (src/gama_tests/test_scripts/utils/memory.py, memory_utils.py) ----
    cuda_available,    \* torch.cuda.is_available()
    gpu_total,         \* device total memory, in 1/100 GB
    gpu_allocated,     \* device memory allocated, in 1/100 GB
    target_gpu_memory, \* MemoryManager.target_gpu_memory, in 1/100 GB
    call,              \* the last call made on the memory manager and what it returned
    \* ---- load_audio_model (src/gama_tests/test_scripts/model_config.py) ----
    model_choice,      \* the argument of load_audio_model
    loader_pc,         \* "start", "load", "fallback", "returned", "raised"
    from_pretrained,   \* the from_pretrained calls made so far: class and model id
    loader_outcome,    \* what load_audio_model returned or raised
    \* ---- download_file (src/gama_tests/test_scripts/download_pytorch.py) ----
    remote,            \* the remote file: its bytes
    destination,       \* the destination file: whether it exists, and its bytes
    first_byte,        \* local first_byte
    headers,           \* local headers: the offset of the Range header, or NoRange
    mode,              \* local mode: "ab" or "wb"
    retry_count,       \* local retry_count
    requests_made,     \* number of requests.get calls made
    download_pc,       \* "start", "loop", "returned", "raised"
    download_result    \* what download_file returned, or the exception that left it

workerVars == <<stdin, pos, pc, request, result, error, processor, stdout, stderr>>
serverVars == <<loaded_models, background_tasks, backend_loads, event_loop, responses>>
memoryVars == <<cuda_available, gpu_total, gpu_allocated, target_gpu_memory, call>>
loaderVars == <<model_choice, loader_pc, from_pretrained, loader_outcome>>
downloadVars == <<remote, destination, first_byte, headers, mode, retry_count,
                  requests_made, download_pc, download_result>>
vars == <<stdin, pos, pc, request, result, error, processor, stdout, stderr,
          loaded_models, background_tasks, backend_loads, event_loop, responses,
          cuda_available, gpu_total, gpu_allocated, target_gpu_memory, call,
          model_choice, loader_pc, from_pretrained, loader_outcome,
          remote, destination, first_byte, headers, mode, retry_count,
          requests_made, download_pc, download_result>>

(***************************************************************************)
(* Bounds                                                                  *)
(***************************************************************************)
MaxLines == 2        \* longest stdin considered
MaxRequests == 3     \* HTTP requests handled in one run
MaxMemUnits == 2     \* largest device memory reading seen by /health, in model-sized units
MinTotal == 100      \* smallest device total considered by the memory manager, in 1/100 GB
MaxTotal == 810      \* largest device total considered by the memory manager, in 1/100 GB
RemoteSize == 2      \* largest remote file considered by download_file, in chunks

(***************************************************************************)
(* Python values                                                           *)
(***************************************************************************)
None == [kind |-> "None"]
Str(s) == [kind |-> "str", value |-> s]
Dict(tag, status) == [kind |-> "dict", tag |-> tag, status |-> status]

(***************************************************************************)
(* stdio worker: input lines                                               *)
(***************************************************************************)
\* The "data" member of a request, by the shape of the parts main() reads:
\*   isdict     : data is a JSON object (absent data defaults to {})
\*   audio      : "absent", "nondict", or the kind of audio["data"]:
\*                "list" (has a length) or "nolen" (a number)
\*   options    : "absent", "null", "nondict" (truthy, not an object),
\*                "dict", "dict_vec" (an object with return_vector true)
\*   model_path : "absent" or a path
DataAbsent    == [isdict |-> TRUE,  audio |-> "absent",  options |-> "absent",   model_path |-> "absent"]
DataNonDict   == [isdict |-> FALSE, audio |-> "absent",  options |-> "absent",   model_path |-> "absent"]
DataAudio     == [isdict |-> TRUE,  audio |-> "list",    options |-> "dict",     model_path |-> "absent"]
DataAudioBad  == [isdict |-> TRUE,  audio |-> "nondict", options |-> "absent",   model_path |-> "absent"]
DataNoLen     == [isdict |-> TRUE,  audio |-> "nolen",   options |-> "absent",   model_path |-> "absent"]
DataNoLenVec  == [isdict |-> TRUE,  audio |-> "nolen",   options |-> "dict_vec", model_path |-> "absent"]
DataOptsBad   == [isdict |-> TRUE,  audio |-> "list",    options |-> "nondict",  model_path |-> "absent"]
DataOptsNull  == [isdict |-> TRUE,  audio |-> "list",    options |-> "null",     model_path |-> "X"]
DataPath      == [isdict |-> TRUE,  audio |-> "absent",  options |-> "dict",     model_path |-> "X"]

DataShapes == {DataAbsent, DataNonDict, DataAudio, DataAudioBad, DataNoLen,
               DataNoLenVec, DataOptsBad, DataOptsNull, DataPath}

Ids == {"None", "a"}               \* request.get("id"): None when the key is absent
DataOperations == {"process_audio", "extract_features", "load_model"}
Operations == {"ping", "shutdown", "bogus"} \cup DataOperations

InvalidLine   == [json |-> "invalid"]
NonObjectLine == [json |-> "nonobject"]
ObjectLines ==
    {[json |-> "object", id |-> i, operation |-> op, data |-> d] :
        i \in Ids, op \in Operations, d \in DataShapes}

\* Lines whose data member matters to the operation carry every shape; a ping,
\* a shutdown and an unknown operation never read data.
Lines ==
    {InvalidLine, NonObjectLine}
    \cup {l \in ObjectLines : l.operation \in DataOperations \/ l.data = DataAbsent}

RECURSIVE SeqsUpTo(_, _)
SeqsUpTo(S, n) ==
    IF n = 0 THEN {<<>>}
    ELSE LET shorter == SeqsUpTo(S, n - 1)
         IN  shorter \cup {Append(s, l) : s \in {t \in shorter : Len(t) = n - 1}, l \in S}

(***************************************************************************)
(* MockGAMAProcessor                                                       *)
(***************************************************************************)
DefaultModelPath == "facebook/gama-7b"

\* __init__: a fresh instance, not initialized.  inst numbers the instances
\* main() has created and initialize_calls counts the calls of initialize()
\* on the instance.
MockGAMAProcessor(inst, model_path) ==
    [inst |-> inst, model_path |-> model_path, initialized |-> FALSE,
     initialize_calls |-> 0]

\* initialize()
Initialize(p) == [p EXCEPT !.initialized = TRUE, !.initialize_calls = @ + 1]

\* Mutation of EnsureInitialized: initialize() is called on every request.
EnsureInitializedAlways(p) == Initialize(p)

\* the "if not self.initialized: self.initialize()" prologue of process_audio
\* and extract_features
EnsureInitialized(p) == IF ~p.initialized THEN Initialize(p) ELSE p

\* ping()
ProcessorPing(p) == Dict("ping", "ok")

\* data.get("audio", {}).get("data", []) raises AttributeError when data or
\* data["audio"] is not a dict.
AudioArgRaises(data) == ~data.isdict \/ data.audio = "nondict"

\* process_audio(audio_data, options): len(audio_data) raises TypeError on a
\* value without a length; options is never read.
ProcessAudioRaises(data) == data.audio = "nolen"

\* extract_features(audio_data, options): options = options or {}, then
\* options.get raises on a truthy non-dict; len(audio_data) is evaluated only
\* when return_vector is false.
ExtractOptionsRaises(data) == data.options = "nondict"
ExtractReturnVector(data) == data.options = "dict_vec"
ExtractFeaturesRaises(data) ==
    ExtractOptionsRaises(data) \/ (~ExtractReturnVector(data) /\ data.audio = "nolen")

\* load_model: data.get("model_path", ..) and data.get("options", {}).get(..)
\* raise AttributeError when data is not a dict or options is present and not
\* a dict (null included).
LoadModelArgsRaise(data) == ~data.isdict \/ data.options \in {"null", "nondict"}
\* Mutation of LoadModelPath: the model_path of the request is not read.
LoadModelPathIgnored(data) == DefaultModelPath

LoadModelPath(data) == IF data.model_path = "absent" THEN DefaultModelPath ELSE data.model_path

(***************************************************************************)
(* stdio worker: main()                                                    *)
(***************************************************************************)
NoRequest == [id |-> "None", operation |-> "None", data |-> DataAbsent]

WorkerInit ==
    /\ stdin \in SeqsUpTo(Lines, MaxLines)
    /\ pos = 0
    /\ pc = "read"
    /\ request = NoRequest
    /\ result = None
    /\ error = None
    /\ processor = MockGAMAProcessor(0, DefaultModelPath)
    /\ stdout = <<>>
    /\ stderr = <<"started">>

\* Mutation of Response: the id of the request is not copied into the response.
ResponseWithoutId(id, res, err) == [id |-> "None", result |-> res, error |-> err]

\* response = {"id", "result", "error"}; sys.stdout.write(json.dumps(response) + "\n")
Response(id, res, err) == [id |-> id, result |-> res, error |-> err]

\* Mutation of ReadInvalidJson: the except branch answers on the response
\* stream instead of the error channel.
ReadInvalidJsonAnswers ==
    /\ pc = "read" /\ pos < Len(stdin)
    /\ stdin[pos + 1].json = "invalid"
    /\ pos' = pos + 1
    /\ stdout' = Append(stdout, Response("None", None, Str("Invalid JSON")))
    /\ UNCHANGED <<stdin, pc, request, result, error, processor, stderr>>
    /\ UNCHANGED <<serverVars, memoryVars, loaderVars, downloadVars>>

\* for line in sys.stdin: json.loads(line) raises JSONDecodeError
ReadInvalidJson ==
    /\ pc = "read" /\ pos < Len(stdin)
    /\ stdin[pos + 1].json = "invalid"
    /\ pos' = pos + 1
    /\ stderr' = Append(stderr, "Invalid JSON")
    /\ UNCHANGED <<stdin, pc, request, result, error, processor, stdout>>
    /\ UNCHANGED <<serverVars, memoryVars, loaderVars, downloadVars>>

\* json.loads succeeds with a value that is not a dict: request.get raises
\* AttributeError in the outer try, which only catches JSONDecodeError.
ReadNonObject ==
    /\ pc = "read" /\ pos < Len(stdin)
    /\ stdin[pos + 1].json = "nonobject"
    /\ pos' = pos + 1
    /\ pc' = "crashed"
    /\ stderr' = Append(stderr, "Traceback")
    /\ UNCHANGED <<stdin, request, result, error, processor, stdout>>
    /\ UNCHANGED <<serverVars, memoryVars, loaderVars, downloadVars>>

\* json.loads succeeds with a dict: request_id, operation, data are read and
\* result, error reset.
ReadRequest ==
    /\ pc = "read" /\ pos < Len(stdin)
    /\ stdin[pos + 1].json = "object"
    /\ pos' = pos + 1
    /\ request' = [id |-> stdin[pos + 1].id,
                   operation |-> stdin[pos + 1].operation,
                   data |-> stdin[pos + 1].data]
    /\ result' = None
    /\ error' = None
    /\ pc' = "dispatch"
    /\ UNCHANGED <<stdin, processor, stdout, stderr>>
    /\ UNCHANGED <<serverVars, memoryVars, loaderVars, downloadVars>>

\* except Exception as e: error = str(e); print(..., file=sys.stderr)
Raise(msg) ==
    /\ error' = Str(msg)
    /\ stderr' = Append(stderr, "Error processing request")
    /\ pc' = "respond"
    /\ UNCHANGED result

Return(value) ==
    /\ result' = value
    /\ pc' = "respond"
    /\ UNCHANGED <<error, stderr>>

DispatchPing ==
    /\ pc = "dispatch" /\ request.operation = "ping"
    /\ Return(ProcessorPing(processor))
    /\ UNCHANGED <<stdin, pos, request, processor, stdout>>
    /\ UNCHANGED <<serverVars, memoryVars, loaderVars, downloadVars>>

DispatchProcessAudio ==
    /\ pc = "dispatch" /\ request.operation = "process_audio"
    /\ IF AudioArgRaises(request.data)
       THEN Raise("AttributeError") /\ UNCHANGED processor
       ELSE /\ processor' = EnsureInitialized(processor)
            /\ IF ProcessAudioRaises(request.data)
               THEN Raise("TypeError")
               ELSE Return(Dict("transcription", ""))
    /\ UNCHANGED <<stdin, pos, request, stdout>>
    /\ UNCHANGED <<serverVars, memoryVars, loaderVars, downloadVars>>

DispatchExtractFeatures ==
    /\ pc = "dispatch" /\ request.operation = "extract_features"
    /\ IF AudioArgRaises(request.data)
       THEN Raise("AttributeError") /\ UNCHANGED processor
       ELSE /\ processor' = EnsureInitialized(processor)
            /\ IF ExtractFeaturesRaises(request.data)
               THEN Raise(IF ExtractOptionsRaises(request.data)
                          THEN "AttributeError" ELSE "TypeError")
               ELSE Return(Dict(IF ExtractReturnVector(request.data)
                                THEN "feature_vector" ELSE "features", ""))
    /\ UNCHANGED <<stdin, pos, request, stdout>>
    /\ UNCHANGED <<serverVars, memoryVars, loaderVars, downloadVars>>

DispatchLoadModel ==
    /\ pc = "dispatch" /\ request.operation = "load_model"
    /\ IF LoadModelArgsRaise(request.data)
       THEN Raise("AttributeError") /\ UNCHANGED processor
       ELSE /\ processor' = Initialize(MockGAMAProcessor(processor.inst + 1,
                                                         LoadModelPath(request.data)))
            /\ Return(Dict("status", "ok"))
    /\ UNCHANGED <<stdin, pos, request, stdout>>
    /\ UNCHANGED <<serverVars, memoryVars, loaderVars, downloadVars>>

\* Mutation of AfterShutdown: no break, control falls through to the
\* response and the loop goes on.
AfterShutdownFallsThrough == "respond"

\* Where control goes after the shutdown branch has set result: the break
\* statement leaves the for loop.
AfterShutdown == "stopped"

DispatchShutdown ==
    /\ pc = "dispatch" /\ request.operation = "shutdown"
    /\ result' = Dict("status", "shutdown")
    /\ stderr' = Append(stderr, "Shutting down")
    /\ pc' = AfterShutdown
    /\ UNCHANGED <<stdin, pos, request, error, processor, stdout>>
    /\ UNCHANGED <<serverVars, memoryVars, loaderVars, downloadVars>>

KnownOperations == {"ping", "process_audio", "extract_features", "load_model", "shutdown"}

\* Mutation of DispatchUnknown: an unknown operation ends the loop.
DispatchUnknownStops ==
    /\ pc = "dispatch" /\ request.operation \notin KnownOperations
    /\ error' = Str("Unknown operation")
    /\ pc' = "stopped"
    /\ UNCHANGED <<stdin, pos, request, result, processor, stdout, stderr>>
    /\ UNCHANGED <<serverVars, memoryVars, loaderVars, downloadVars>>

\* Mutation of DispatchUnknown: the else branch is missing, error stays None.
DispatchUnknownSilent ==
    /\ pc = "dispatch" /\ request.operation \notin KnownOperations
    /\ pc' = "respond"
    /\ UNCHANGED <<stdin, pos, request, result, error, processor, stdout, stderr>>
    /\ UNCHANGED <<serverVars, memoryVars, loaderVars, downloadVars>>

DispatchUnknown ==
    /\ pc = "dispatch" /\ request.operation \notin KnownOperations
    /\ error' = Str("Unknown operation")
    /\ pc' = "respond"
    /\ UNCHANGED <<stdin, pos, request, result, processor, stdout, stderr>>
    /\ UNCHANGED <<serverVars, memoryVars, loaderVars, downloadVars>>

SendResponse ==
    /\ pc = "respond"
    /\ stdout' = Append(stdout, Response(request.id, result, error))
    /\ pc' = "read"
    /\ UNCHANGED <<stdin, pos, request, result, error, processor, stderr>>
    /\ UNCHANGED <<serverVars, memoryVars, loaderVars, downloadVars>>

\* sys.stdin is exhausted: the for loop ends.
EndOfInput ==
    /\ pc = "read" /\ pos = Len(stdin)
    /\ pc' = "stopped"
    /\ UNCHANGED <<stdin, pos, request, result, error, processor, stdout, stderr>>
    /\ UNCHANGED <<serverVars, memoryVars, loaderVars, downloadVars>>

WorkerNext ==
    \/ ReadInvalidJson
    \/ ReadNonObject
    \/ ReadRequest
    \/ DispatchPing
    \/ DispatchProcessAudio
    \/ DispatchExtractFeatures
    \/ DispatchLoadModel
    \/ DispatchShutdown
    \/ DispatchUnknown
    \/ SendResponse
    \/ EndOfInput

(***************************************************************************)
(* stdio worker: claims                                                    *)
(***************************************************************************)
IsJson(line) == line.json # "invalid"
IsRequest(line) == line.json = "object"
IsShutdown(line) == IsRequest(line) /\ line.operation = "shutdown"

\* main() is between two iterations of the for loop, or has left it.
AtLoopBoundary == pc \in {"read", "stopped", "crashed"}

CountLines(P(_), k) == Cardinality({i \in 1..k : P(stdin[i])})
IsAnswered(line) == IsRequest(line) /\ ~IsShutdown(line)
IsInvalid(line) == line.json = "invalid"
InvalidDiagnostics == Cardinality({i \in 1..Len(stderr) : stderr[i] = "Invalid JSON"})

\* C2 (as claimed): every input line that parses as JSON gets exactly one
\* response line: between iterations the number of response lines equals the
\* number of JSON lines taken so far.
C2_OneResponsePerJsonLine ==
    AtLoopBoundary => Len(stdout) = CountLines(IsJson, pos)

\* C3 (as claimed): no input line other than a shutdown request ends the read
\* loop: main() never dies on a line, and leaves the loop only on shutdown or
\* at the end of the input.
C3_OnlyShutdownEndsLoop ==
    /\ pc # "crashed"
    /\ pc = "stopped" => (pos = Len(stdin) \/ IsShutdown(stdin[pos]))

\* The line last taken was a shutdown request and its dispatch is over.
ShutdownHandled == pos > 0 /\ IsShutdown(stdin[pos]) /\ pc # "dispatch"

\* C6 (as claimed): once a shutdown request is handled, the last response
\* line is its acknowledgement: the request's id, result {status: "shutdown"}.
C6_ShutdownAcknowledged ==
    ShutdownHandled /\ pc = "stopped" =>
        /\ stdout # <<>>
        /\ stdout[Len(stdout)] = Response(request.id, Dict("status", "shutdown"), None)

\* A shutdown request was taken at some earlier point and has been dispatched.
AfterAShutdown ==
    \E i \in 1..pos : IsShutdown(stdin[i]) /\ (i < pos \/ pc # "dispatch")

\* C7: after a shutdown request has been handled, no further line is taken
\* from the input and no further response line is written.
C7_NothingAfterShutdown ==
    [][AfterAShutdown => (pos' = pos /\ stdout' = stdout /\ pc' # "dispatch")]_vars

C7_Witness == AfterAShutdown /\ pc = "stopped" /\ pos < Len(stdin)

PingLine == [json |-> "object", id |-> "a", operation |-> "ping", data |-> DataAbsent]

\* C8: a line that is not valid JSON writes nothing to the response stream
\* (the response lines are exactly those of the answered requests), writes one
\* diagnostic to the error channel, and the loop goes on; a malformed line
\* followed by a ping yields exactly the ping's response.
C8_MalformedLineSkipped ==
    /\ AtLoopBoundary => Len(stdout) = CountLines(IsAnswered, pos)
    /\ InvalidDiagnostics = CountLines(IsInvalid, pos)
    /\ (pos > 0 /\ IsInvalid(stdin[pos])) =>
            (pc = "read" \/ (pc = "stopped" /\ pos = Len(stdin)))
    /\ (stdin = <<InvalidLine, PingLine>> /\ pc = "stopped") =>
            stdout = <<Response("a", Dict("ping", "ok"), None)>>

C8_Witness ==
    /\ stdin = <<InvalidLine, PingLine>> /\ pc = "stopped"
    /\ Len(stdout) = 1 /\ InvalidDiagnostics = 1

\* C9: every response line written has exactly one of result and error
\* non-null.
C9_ExactlyOneOfResultError ==
    \A i \in 1..Len(stdout) : (stdout[i].result = None) # (stdout[i].error = None)

C9_Witness ==
    /\ Len(stdout) = 2
    /\ stdout[1].error # None /\ stdout[1].error.value = "Unknown operation"
    /\ stdout[2].result # None

\* The input line the j-th response line answers: the j-th answered request.
NthAnswered(j) ==
    CHOOSE i \in 1..Len(stdin) : IsAnswered(stdin[i]) /\ CountLines(IsAnswered, i) = j

UnknownInHand == request.operation \notin KnownOperations

\* C20: a request whose operation is none of the five known ones is answered
\* with a null result and the error "Unknown operation"; serving it leaves the
\* processor as it was, and the loop goes back to reading.
C20_UnknownOperationAnswered ==
    /\ [](\A j \in 1..Len(stdout) :
            stdin[NthAnswered(j)].operation \notin KnownOperations =>
                stdout[j] = Response(stdin[NthAnswered(j)].id, None,
                                     Str("Unknown operation")))
    /\ [][(pc = "dispatch" /\ UnknownInHand) =>
              (pc' = "respond" /\ processor' = processor)]_vars
    /\ [][(pc = "respond" /\ UnknownInHand) =>
              (pc' = "read" /\ processor' = processor
               /\ stdout' = Append(stdout, Response(request.id, None,
                                                    Str("Unknown operation"))))]_vars

BogusLine == [json |-> "object", id |-> "a", operation |-> "bogus", data |-> DataAbsent]

C20_Witness ==
    /\ stdin = <<BogusLine, PingLine>> /\ pc = "stopped"
    /\ stdout = <<Response("a", None, Str("Unknown operation")),
                  Response("a", Dict("ping", "ok"), None)>>

\* The line last taken is a load_model request, its dispatch is over and it
\* set result = {"status": "ok"}.
LoadModelSucceeded ==
    /\ pos > 0 /\ IsRequest(stdin[pos]) /\ stdin[pos].operation = "load_model"
    /\ pc # "dispatch"
    /\ result = Dict("status", "ok")

IsPing(line) == IsRequest(line) /\ line.operation = "ping"

\* C21: once a load_model request has succeeded, the active processor is
\* initialized and is for the requested path (the default path when the
\* request has no model_path), and its response is {status: "ok"}; every ping,
\* one that follows a load_model included, is answered with status "ok".
C21_LoadModelThenPing ==
    /\ LoadModelSucceeded =>
          /\ processor.initialized
          /\ processor.model_path =
                (IF stdin[pos].data.model_path = "absent"
                 THEN DefaultModelPath ELSE stdin[pos].data.model_path)
          /\ pc = "read" =>
                stdout[Len(stdout)] = Response(stdin[pos].id, Dict("status", "ok"), None)
    /\ \A j \in 1..Len(stdout) :
          IsPing(stdin[NthAnswered(j)]) =>
              stdout[j] = Response(stdin[NthAnswered(j)].id, Dict("ping", "ok"), None)

LoadXLine == [json |-> "object", id |-> "a", operation |-> "load_model", data |-> DataPath]

C21_Witness ==
    /\ stdin = <<LoadXLine, PingLine>> /\ pc = "stopped"
    /\ processor.initialized /\ processor.model_path = "X"
    /\ stdout = <<Response("a", Dict("status", "ok"), None),
                  Response("a", Dict("ping", "ok"), None)>>

\* C25: requests are served one at a time in arrival order: when a line is
\* being dispatched every earlier answered request already has its response,
\* between iterations so has the line last taken, and the j-th response
\* carries the id of the j-th answered request line.
C25_ResponsesInArrivalOrder ==
    /\ pc \in {"dispatch", "respond"} => Len(stdout) = CountLines(IsAnswered, pos - 1)
    /\ AtLoopBoundary => Len(stdout) = CountLines(IsAnswered, pos)
    /\ \A j \in 1..Len(stdout) : stdout[j].id = stdin[NthAnswered(j)].id

C25_Witness ==
    /\ Len(stdin) = 2 /\ pc = "stopped"
    /\ IsAnswered(stdin[1]) /\ IsAnswered(stdin[2])
    /\ stdin[1].id = "a" /\ stdin[2].id = "None"
    /\ Len(stdout) = 2 /\ stdout[1].id = "a" /\ stdout[2].id = "None"

\* The line last taken is a process_audio, extract_features or load_model
\* request that has set a result.
DataRequestSucceeded ==
    /\ pos > 0 /\ IsRequest(stdin[pos]) /\ stdin[pos].operation \in DataOperations
    /\ pc # "dispatch"
    /\ result # None

\* C29: initialize() runs at most once on each processor instance, and runs
\* exactly when the instance becomes initialized; after a successful
\* process_audio, extract_features or load_model the active processor is
\* initialized; initialized never reverts to false on an instance, and a step
\* on an initialized instance does not initialize it again.
C29_InitializedAtMostOnce ==
    /\ [](processor.initialize_calls = (IF processor.initialized THEN 1 ELSE 0))
    /\ [](DataRequestSucceeded => processor.initialized)
    /\ [][(processor'.inst = processor.inst /\ processor.initialized) =>
              processor' = processor]_vars

C29_Witness ==
    /\ Len(stdin) = 2 /\ pc = "stopped"
    /\ IsRequest(stdin[1]) /\ stdin[1].operation = "process_audio"
    /\ IsRequest(stdin[2]) /\ stdin[2].operation = "extract_features"
    /\ Len(stdout) = 2 /\ stdout[1].result # None /\ stdout[2].result # None
    /\ processor.inst = 0 /\ processor.initialized /\ processor.initialize_calls = 1

(***************************************************************************)
(* HTTP server                                                             *)
(*                                                                         *)
(* uvicorn.run(app) serves every request on one event loop thread.  Every  *)
(* endpoint and load_model_task is an "async def" that never awaits        *)
(* anything that suspends (from_pretrained and time.sleep are blocking     *)
(* calls), so each runs to completion on that thread before anything else  *)
(* runs on it.  A task added through BackgroundTasks runs after the        *)
(* response of its request has been sent: other requests can be handled    *)
(* between a /models/load response and the start of the task it scheduled. *)
(* A background load_model_task is modelled in two steps, its start and    *)
(* the return of from_pretrained, with event_loop naming the task the      *)
(* thread is inside of in between; a handler step needs the thread.        *)
(***************************************************************************)
DefaultModel == "wav2vec2-base"
Names == {DefaultModel, "other"}

Idle == "idle"

\* The event loop thread is free to run a handler or start a task.
LoopFree == event_loop = Idle

ServerInit ==
    /\ loaded_models = [n \in Names |-> 0]
    /\ background_tasks = [n \in Names |-> 0]
    /\ backend_loads = <<>>
    /\ event_loop = Idle
    /\ responses = <<>>

InCache(cache, name) == cache[name] # 0

\* Mutation of LoadModelTask: the entry is stored whether or not the load
\* succeeded.
LoadModelTaskAlwaysStores(cache, name, handle, ok) == [cache EXCEPT ![name] = handle]

\* load_model_task: from_pretrained (outcome ok) and, on success only, the
\* store into loaded_models; an exception is logged and swallowed, leaving the
\* cache as it was.
LoadModelTask(cache, name, handle, ok) ==
    IF ok THEN [cache EXCEPT ![name] = handle] ELSE cache

\* raise HTTPException(status_code, detail)
HTTPException(status, detail) == [raised |-> TRUE, http |-> TRUE, status |-> status, detail |-> detail]
\* any other exception
Exception(detail) == [raised |-> TRUE, http |-> FALSE, status |-> 0, detail |-> detail]
NoException == [raised |-> FALSE, http |-> FALSE, status |-> 0, detail |-> ""]

\* process_audio's "except Exception as e: raise HTTPException(500, str(e))":
\* HTTPException is an Exception, so one raised inside the try is caught and
\* re-raised as a 500 too.
ProcessExcept(exc) == HTTPException(500, exc.detail)

\* Mutation of LoadModel: the "already loaded" test is missing, a task is
\* added on every request.
LoadModelAlwaysSchedules(name) ==
    /\ LoopFree
    /\ Len(responses) < MaxRequests
    /\ background_tasks' = [background_tasks EXCEPT ![name] = @ + 1]
    /\ responses' = Append(responses,
        [endpoint |-> "load", name |-> name, status |-> 200,
         message |-> "loading started",
         was_loaded |-> InCache(loaded_models, name),
         pending_before |-> background_tasks[name]])
    /\ UNCHANGED <<loaded_models, backend_loads, event_loop>>
    /\ UNCHANGED <<workerVars, memoryVars, loaderVars, downloadVars>>

\* Mutation of LoadModel: the handler awaits load_model_task itself instead
\* of handing it to BackgroundTasks.
LoadModelInline(name) ==
    /\ LoopFree
    /\ Len(responses) < MaxRequests
    /\ IF InCache(loaded_models, name)
       THEN /\ responses' = Append(responses,
                [endpoint |-> "load", name |-> name, status |-> 200,
                 message |-> "already loaded",
                 was_loaded |-> TRUE, pending_before |-> background_tasks[name]])
            /\ UNCHANGED <<loaded_models, backend_loads>>
       ELSE /\ backend_loads' = Append(backend_loads, [name |-> name, ok |-> TRUE])
            /\ loaded_models' = [loaded_models EXCEPT ![name] = Len(backend_loads) + 1]
            /\ responses' = Append(responses,
                [endpoint |-> "load", name |-> name, status |-> 200,
                 message |-> "loading started",
                 was_loaded |-> FALSE, pending_before |-> background_tasks[name]])
    /\ UNCHANGED <<background_tasks, event_loop>>
    /\ UNCHANGED <<workerVars, memoryVars, loaderVars, downloadVars>>

\* POST /models/load
LoadModel(name) ==
    /\ LoopFree
    /\ Len(responses) < MaxRequests
    /\ IF InCache(loaded_models, name)
       THEN /\ responses' = Append(responses,
                [endpoint |-> "load", name |-> name, status |-> 200,
                 message |-> "already loaded",
                 was_loaded |-> TRUE, pending_before |-> background_tasks[name]])
            /\ UNCHANGED background_tasks
       ELSE /\ background_tasks' = [background_tasks EXCEPT ![name] = @ + 1]
            /\ responses' = Append(responses,
                [endpoint |-> "load", name |-> name, status |-> 200,
                 message |-> "loading started",
                 was_loaded |-> FALSE, pending_before |-> background_tasks[name]])
    /\ UNCHANGED <<loaded_models, backend_loads, event_loop>>
    /\ UNCHANGED <<workerVars, memoryVars, loaderVars, downloadVars>>

\* A scheduled load_model_task starts on the event loop thread and enters
\* from_pretrained.
BeginLoadTask(name) ==
    /\ LoopFree
    /\ background_tasks[name] > 0
    /\ background_tasks' = [background_tasks EXCEPT ![name] = @ - 1]
    /\ event_loop' = name
    /\ UNCHANGED <<loaded_models, backend_loads, responses>>
    /\ UNCHANGED <<workerVars, memoryVars, loaderVars, downloadVars>>

\* from_pretrained returns or raises (ok) in the running load_model_task,
\* which stores the model or logs the failure, and gives the thread back.
FinishLoadTask(ok) ==
    /\ ~LoopFree
    /\ backend_loads' = Append(backend_loads, [name |-> event_loop, ok |-> ok])
    /\ loaded_models' = LoadModelTask(loaded_models, event_loop, Len(backend_loads) + 1, ok)
    /\ event_loop' = Idle
    /\ UNCHANGED <<background_tasks, responses>>
    /\ UNCHANGED <<workerVars, memoryVars, loaderVars, downloadVars>>

\* POST /process/wav2vec2 with options.model = name (DefaultModel when absent).
\* load_ok: outcome of the inline load, compute_ok: outcome of the processor
\* and model calls.
ProcessAudio(name, load_ok, compute_ok) ==
    LET was_loaded == InCache(loaded_models, name)
        auto_load  == ~was_loaded /\ name = DefaultModel
        \* await load_model_task(...); import time; time.sleep(5)
        cache      == IF auto_load
                      THEN LoadModelTask(loaded_models, name, Len(backend_loads) + 1, load_ok)
                      ELSE loaded_models
        loads      == IF auto_load
                      THEN Append(backend_loads, [name |-> name, ok |-> load_ok])
                      ELSE backend_loads
        time_bound == auto_load
        reaches_compute == (was_loaded \/ auto_load) /\ InCache(cache, name)
        raised ==
            IF ~was_loaded /\ ~auto_load
                THEN HTTPException(400, "not loaded")
            ELSE IF ~InCache(cache, name)
                THEN Exception("KeyError")              \* loaded_models[model_name]
            ELSE IF ~compute_ok
                THEN Exception("BackendFailure")
            ELSE IF ~time_bound
                THEN Exception("UnboundLocalError")     \* time.time()
            ELSE NoException
        sent == IF raised.raised THEN ProcessExcept(raised) ELSE NoException
    IN  /\ LoopFree
        /\ Len(responses) < MaxRequests
        \* an outcome that is never drawn (no inline load, computation not
        \* reached) is fixed, so that it does not split the step in two
        /\ reaches_compute \/ compute_ok
        /\ auto_load \/ load_ok
        /\ loaded_models' = cache
        /\ backend_loads' = loads
        /\ responses' = Append(responses,
             [endpoint |-> "process", name |-> name,
              status |-> IF sent.raised THEN sent.status ELSE 200,
              detail |-> sent.detail,
              body |-> IF sent.raised THEN "error" ELSE "features+metadata",
              was_loaded |-> was_loaded,
              auto_loaded |-> auto_load,
              handle |-> IF reaches_compute THEN cache[name] ELSE 0,
              backend_failed |-> reaches_compute /\ ~compute_ok,
              loads_seen |-> Len(loads)])
        /\ UNCHANGED <<background_tasks, event_loop>>
        /\ UNCHANGED <<workerVars, memoryVars, loaderVars, downloadVars>>

\* Python's a / b on two ints: a float, here the exact fraction num/den, or
\* ZeroDivisionError.
Fraction(num, den) == [raised |-> FALSE, num |-> num, den |-> den]
ZeroDivisionError == [raised |-> TRUE, num |-> 0, den |-> 0]
TrueDiv(a, b) == IF b = 0 THEN ZeroDivisionError ELSE Fraction(a, b)

\* Mutation of HealthMemoryUsage: the "if max_memory_allocated() > 0" guard
\* is missing.
HealthMemoryUsageUnguarded(gpu_available, allocated, peak) ==
    IF gpu_available THEN TrueDiv(allocated, peak) ELSE Fraction(0, 1)

\* health_check: memory_allocated() / max_memory_allocated() if
\* max_memory_allocated() > 0 else 0, and 0 without a GPU.
HealthMemoryUsage(gpu_available, allocated, peak) ==
    IF gpu_available
    THEN IF peak > 0 THEN TrueDiv(allocated, peak) ELSE Fraction(0, 1)
    ELSE Fraction(0, 1)

\* list(loaded_models.keys())
HealthModels(cache) == {n \in Names : InCache(cache, n)}

\* The readings torch.cuda can give: the peak is the largest allocation since
\* the last reset, so allocated <= peak; nothing is read without a GPU.
DeviceReadings ==
    {[gpu_available |-> FALSE, allocated |-> 0, peak |-> 0]}
    \cup {[gpu_available |-> TRUE, allocated |-> a, peak |-> p] :
            a \in 0..MaxMemUnits, p \in 0..MaxMemUnits}

\* GET /health; an exception inside the try is answered as 500.
HealthCheck(probe) ==
    LET usage == HealthMemoryUsage(probe.gpu_available, probe.allocated, probe.peak)
    IN  /\ LoopFree
        /\ Len(responses) < MaxRequests
        /\ probe.allocated <= probe.peak
        /\ responses' = Append(responses,
             [endpoint |-> "health",
              status |-> IF usage.raised THEN 500 ELSE 200,
              models |-> HealthModels(loaded_models),
              gpu_available |-> probe.gpu_available,
              memory_usage |-> usage,
              probe |-> probe,
              pending |-> {n \in Names : background_tasks[n] > 0},
              loads_seen |-> Len(backend_loads)])
        /\ UNCHANGED <<loaded_models, background_tasks, backend_loads, event_loop>>
        /\ UNCHANGED <<workerVars, memoryVars, loaderVars, downloadVars>>

ServerNext ==
    \/ \E name \in Names : LoadModel(name)
    \/ \E name \in Names : BeginLoadTask(name)
    \/ \E ok \in BOOLEAN : FinishLoadTask(ok)
    \/ \E name \in Names, load_ok \in BOOLEAN, compute_ok \in BOOLEAN :
            ProcessAudio(name, load_ok, compute_ok)
    \/ \E probe \in DeviceReadings : HealthCheck(probe)

(***************************************************************************)
(* HTTP server: claims                                                     *)
(***************************************************************************)
\* load_model_task calls for the name that are scheduled or running
Pending(name) == background_tasks[name] + (IF event_loop = name THEN 1 ELSE 0)
LoadResponses == {i \in 1..Len(responses) : responses[i].endpoint = "load"}
ProcessResponses == {i \in 1..Len(responses) : responses[i].endpoint = "process"}

\* C1 (as claimed): for every name at most one load is scheduled while the
\* name is loading or loaded, and a /models/load that arrives while a load of
\* the name is scheduled or done is answered "already loaded" and schedules
\* nothing.
C1_AtMostOneLoadPerName ==
    /\ \A n \in Names :
          Pending(n) + (IF InCache(loaded_models, n) THEN 1 ELSE 0) <= 1
    /\ \A i \in LoadResponses :
          (responses[i].pending_before > 0 \/ responses[i].was_loaded)
              => responses[i].message = "already loaded"

\* C4 (as claimed): a /process request for a name that is not loaded and is
\* not the default name is answered 400.
C4_UnknownModelIs400 ==
    \A i \in ProcessResponses :
        (~responses[i].was_loaded /\ responses[i].name # DefaultModel)
            => responses[i].status = 400

\* C5 (as claimed): a /process request whose model is in the cache when it
\* arrives, and whose backend computation does not fail, is answered 200 with
\* features and metadata.
C5_LoadedModelSucceeds ==
    \A i \in ProcessResponses :
        (responses[i].was_loaded /\ ~responses[i].backend_failed)
            => (responses[i].status = 200 /\ responses[i].body = "features+metadata")

\* C10: /process uses a model for inference only when a backend load of that
\* name has completed successfully before, and answers with the failure of
\* the load (the KeyError after the inline load) only when a backend load of
\* that name has failed before.
C10_ReadyOnlyAfterLoad ==
    \A i \in ProcessResponses :
        LET r == responses[i] IN
        /\ r.handle # 0 =>
              /\ r.handle <= r.loads_seen
              /\ backend_loads[r.handle].name = r.name
              /\ backend_loads[r.handle].ok
        /\ r.detail = "KeyError" =>
              \E k \in 1..r.loads_seen :
                  backend_loads[k].name = r.name /\ ~backend_loads[k].ok

C10_Witness ==
    \E i \in ProcessResponses, j \in ProcessResponses :
        /\ responses[i].handle # 0 /\ responses[i].auto_loaded
        /\ responses[j].detail = "KeyError"

\* C11 (as claimed): a /process request that triggered a load and finds the
\* model not ready after its wait ends with a TimedOut outcome of its own,
\* not with the outcome of a failed load.
C11_NotReadyIsTimedOut ==
    \A i \in ProcessResponses :
        (responses[i].auto_loaded /\ responses[i].handle = 0)
            => responses[i].detail = "TimedOut"

\* The step sends a /models/load response; "loaded" says what the cache held
\* for the name when the request arrived.
LoadAnswered(loaded) ==
    /\ Len(responses') = Len(responses) + 1
    /\ responses'[Len(responses')].endpoint = "load"
    /\ responses'[Len(responses')].was_loaded = loaded

\* C12: a /models/load for a name already in the cache answers success
\* ("already loaded"), schedules no load, runs no backend load and leaves the
\* cache as it was; so any number of repetitions leaves the state a single
\* one leaves.
C12_LoadOfLoadedIsNoOp ==
    [][LoadAnswered(TRUE) =>
          /\ responses'[Len(responses')].status = 200
          /\ responses'[Len(responses')].message = "already loaded"
          /\ InCache(loaded_models, responses'[Len(responses')].name)
          /\ loaded_models' = loaded_models
          /\ background_tasks' = background_tasks
          /\ backend_loads' = backend_loads]_vars

C12_Witness ==
    \E i \in LoadResponses :
        /\ i + 1 \in LoadResponses
        /\ responses[i].was_loaded /\ responses[i + 1].was_loaded
        /\ responses[i].name = responses[i + 1].name
        /\ InCache(loaded_models, responses[i].name)

\* C13: a /models/load for a name not in the cache answers "loading started"
\* without running the load: when the response is sent no backend load has
\* run, the name is still not in the cache, and its load is scheduled to run
\* afterwards.
C13_LoadAcceptedBeforeLoading ==
    [][LoadAnswered(FALSE) =>
          LET name == responses'[Len(responses')].name IN
          /\ responses'[Len(responses')].status = 200
          /\ responses'[Len(responses')].message = "loading started"
          /\ ~InCache(loaded_models', name)
          /\ backend_loads' = backend_loads
          /\ background_tasks'[name] = background_tasks[name] + 1]_vars

C13_Witness ==
    \E i \in LoadResponses :
        /\ ~responses[i].was_loaded
        /\ InCache(loaded_models, responses[i].name)
        /\ backend_loads[loaded_models[responses[i].name]].name = responses[i].name
        /\ \A j \in ProcessResponses : ~responses[j].auto_loaded

HealthResponses == {i \in 1..Len(responses) : responses[i].endpoint = "health"}

\* C14: the memory_usage of every /health response is a number in [0, 1]
\* (the request never fails on the division), and it is 0 when there is no
\* GPU or the peak allocation is 0.
C14_MemoryUsageInUnitInterval ==
    \A i \in HealthResponses :
        LET r == responses[i]
            m == r.memory_usage
        IN  /\ r.status = 200
            /\ ~m.raised
            /\ m.den > 0 /\ 0 <= m.num /\ m.num <= m.den
            /\ (~r.gpu_available \/ r.probe.peak = 0) => m.num = 0
            /\ (r.gpu_available /\ r.probe.peak > 0) =>
                  (m.num = r.probe.allocated /\ m.den = r.probe.peak)

C14_Witness ==
    \E i \in HealthResponses, j \in HealthResponses, k \in HealthResponses :
        /\ responses[i].gpu_available /\ responses[i].probe.peak = 0
        /\ ~responses[j].gpu_available
        /\ responses[k].gpu_available
        /\ 0 < responses[k].probe.allocated
        /\ responses[k].probe.allocated < responses[k].probe.peak

\* The names of which a backend load had completed successfully among the
\* first k loads.
LoadedBy(k) == {n \in Names : \E j \in 1..k : backend_loads[j].name = n /\ backend_loads[j].ok}

\* C15: the models list of every /health response is exactly the set of names
\* whose load had completed successfully when it was sent; a name whose load
\* is only scheduled, or failed, is not in it.
C15_HealthListsLoaded ==
    \A i \in HealthResponses :
        responses[i].models = LoadedBy(responses[i].loads_seen)

C15_Witness ==
    \E i \in HealthResponses :
        /\ responses[i].models = {"other"}
        /\ DefaultModel \in responses[i].pending

\* A background load is in flight: load_model_task has started and its
\* from_pretrained has not returned.
LoadInFlight == event_loop \in Names

\* C22 (as claimed): while a model load is in flight, a GET /health and a
\* /models/load for another name can be handled to completion: the load does
\* not keep request handling from running.
C22_LoadNeverBlocksRequests ==
    (LoadInFlight /\ Len(responses) < MaxRequests) =>
        /\ ENABLED (\E probe \in DeviceReadings : HealthCheck(probe))
        /\ \A n \in Names \ {event_loop} : ENABLED LoadModel(n)

LoadsOf(name) == {k \in 1..Len(backend_loads) : backend_loads[k].name = name}

\* The last backend load of the name failed and none has been started or
\* scheduled since.
LoadFailed(name) ==
    /\ LoadsOf(name) # {}
    /\ ~backend_loads[CHOOSE k \in LoadsOf(name) : \A j \in LoadsOf(name) : j <= k].ok
    /\ Pending(name) = 0

\* C23 (as claimed): when the backend load of a name has failed, the name
\* keeps an entry recording the failure until a retry is started: the cache
\* holds an entry for every name whose last load failed.
C23_FailedEntryKept ==
    \A n \in Names : LoadFailed(n) => InCache(loaded_models, n)

\* C24 (as claimed): the state of a name changes only along the permitted
\* transitions; in particular the completion of a load for a name that is
\* already loaded is rejected: a stored entry is never replaced by another
\* backend handle (it stays as it is or is removed).
C24_LoadedEntryNotReplaced ==
    [][\A n \in Names :
          InCache(loaded_models, n) => loaded_models'[n] \in {loaded_models[n], 0}]_vars

(***************************************************************************)
(* Memory manager                                                          *)
(*                                                                         *)
(* Memory amounts are Python floats in GB; here they are integers in units *)
(* of 1/100 GB, so 0.5 GB is 50 and 8 GB is 800.                           *)
(***************************************************************************)
SafetyMargin == 50               \* "Leave 0.5GB buffer"
LowMemoryThreshold == 800        \* "Less than 8GB VRAM"
DefaultTargetGpuMemory == 550    \* target_gpu_memory: float = 5.5
DefaultRequiredGpuMemory == 600  \* required_gpu_memory: float = 6.0

Min(a, b) == IF a <= b THEN a ELSE b
Max(a, b) == IF a >= b THEN a ELSE b

\* The inputs the calls are applied to.
TargetBudgets == {DefaultTargetGpuMemory, 733, 1200}
AllocatedLevels == {0, 250, 500}
RequiredAmounts == {0, 275, DefaultRequiredGpuMemory}
SampleBatchMemories == {-100, 0, 1, 100, 300}
Float(x) == [kind |-> "float", value |-> x]
TargetMemories == {None, Float(300)}             \* target_memory: Optional[float] = None

\* get_memory_stats: the gpu_* fields stay 0.0 unless torch.cuda.is_available().
GetMemoryStats ==
    IF cuda_available
    THEN [gpu_allocated |-> gpu_allocated, gpu_total |-> gpu_total]
    ELSE [gpu_allocated |-> 0, gpu_total |-> 0]

\* MemoryManager.check_memory_available: a pair (is_available, available).
CheckMemoryAvailable(required_gb) ==
    IF ~cuda_available
    THEN [kind |-> "tuple", is_available |-> FALSE, available |-> 0]
    ELSE LET stats == GetMemoryStats
             available == stats.gpu_total - stats.gpu_allocated
         IN  [kind |-> "tuple", is_available |-> available >= required_gb,
              available |-> available]

\* MemoryMonitor.check_memory_requirements: a bool, from the device total alone.
CheckMemoryRequirements(required_gpu_memory) ==
    IF ~cuda_available
    THEN [kind |-> "bool", value |-> FALSE]
    ELSE IF gpu_total < required_gpu_memory
         THEN [kind |-> "bool", value |-> FALSE]
         ELSE [kind |-> "bool", value |-> TRUE]

\* Mutation of LowMemory: the threshold itself counts as low memory.
LowMemoryInclusive(stats) == stats.gpu_total <= LowMemoryThreshold

\* optimize_model_config: if stats.gpu_total < 8
LowMemory(stats) == stats.gpu_total < LowMemoryThreshold

\* Mutation of MaxMemory: the 0.5 GB buffer is not subtracted.
MaxMemoryNoBuffer(stats, target) == Min(stats.gpu_total, target)

\* optimize_model_config: max_memory = min(stats.gpu_total - 0.5, self.target_gpu_memory)
MaxMemory(stats, target) == Min(stats.gpu_total - SafetyMargin, target)

\* f"{x:.1f}": x rounded to one decimal, a multiple of 10 units.  A value that
\* lies halfway in decimal goes up or down with the binary value of the
\* float, which these units do not hold: both neighbours are possible.
Format1f(x) ==
    LET low == x - (x % 10)
    IN  IF x % 10 < 5 THEN {low}
        ELSE IF x % 10 > 5 THEN {low + 10}
        ELSE {low, low + 10}

\* optimize_model_config: the config dict; a key the code does not set is "unset".
OptimizeModelConfig(stats, target, max_memory_text) ==
    [torch_dtype |-> "float16",
     device_map |-> "auto",
     load_in_8bit |-> IF LowMemory(stats) THEN "True" ELSE "unset",
     use_cache |-> IF LowMemory(stats) THEN "False" ELSE "unset",
     gradient_checkpointing |-> IF LowMemory(stats) THEN "True" ELSE "unset",
     max_memory |-> max_memory_text]

\* int(x) for the float x = num / den: truncation toward zero.
IntOfQuotient(num, den) ==
    LET n == IF den < 0 THEN -num ELSE num
        d == IF den < 0 THEN -den ELSE den
    IN  IF n >= 0 THEN n \div d ELSE -((-n) \div d)

\* get_optimal_batch_size: max(1, int((available_memory * 0.8) / sample_batch_memory));
\* a float division by zero raises ZeroDivisionError.
GetOptimalBatchSize(sample_batch_memory, target_memory) ==
    LET target == IF target_memory = None THEN target_gpu_memory ELSE target_memory.value
        stats == GetMemoryStats
        available_memory == Min(stats.gpu_total - stats.gpu_allocated, target)
    IN  IF sample_batch_memory = 0
        THEN [raised |-> TRUE, value |-> 0]
        ELSE [raised |-> FALSE,
              value |-> Max(1, IntOfQuotient(available_memory * 8, sample_batch_memory * 10))]

NoCall == [op |-> "none"]

MemoryInit ==
    /\ cuda_available \in BOOLEAN
    /\ gpu_total \in IF cuda_available THEN MinTotal..MaxTotal ELSE {0}
    /\ gpu_allocated \in {a \in AllocatedLevels : a <= gpu_total}
    /\ target_gpu_memory \in TargetBudgets
    /\ call = NoCall

MemoryIdle ==
    /\ cuda_available = FALSE /\ gpu_total = 0 /\ gpu_allocated = 0
    /\ target_gpu_memory = DefaultTargetGpuMemory
    /\ call = NoCall

CallCheckMemoryAvailable(required_gb) ==
    /\ call' = [op |-> "check_memory_available", required |-> required_gb,
                returned |-> CheckMemoryAvailable(required_gb)]
    /\ UNCHANGED <<cuda_available, gpu_total, gpu_allocated, target_gpu_memory>>
    /\ UNCHANGED <<workerVars, serverVars, loaderVars, downloadVars>>

CallCheckMemoryRequirements(required_gpu_memory) ==
    /\ call' = [op |-> "check_memory_requirements", required |-> required_gpu_memory,
                returned |-> CheckMemoryRequirements(required_gpu_memory)]
    /\ UNCHANGED <<cuda_available, gpu_total, gpu_allocated, target_gpu_memory>>
    /\ UNCHANGED <<workerVars, serverVars, loaderVars, downloadVars>>

CallOptimizeModelConfig ==
    /\ \E text \in Format1f(MaxMemory(GetMemoryStats, target_gpu_memory)) :
          call' = [op |-> "optimize_model_config", stats |-> GetMemoryStats,
                   returned |-> OptimizeModelConfig(GetMemoryStats, target_gpu_memory, text)]
    /\ UNCHANGED <<cuda_available, gpu_total, gpu_allocated, target_gpu_memory>>
    /\ UNCHANGED <<workerVars, serverVars, loaderVars, downloadVars>>

CallGetOptimalBatchSize(sample_batch_memory, target_memory) ==
    /\ call' = [op |-> "get_optimal_batch_size", sample |-> sample_batch_memory,
                target_memory |-> target_memory,
                returned |-> GetOptimalBatchSize(sample_batch_memory, target_memory)]
    /\ UNCHANGED <<cuda_available, gpu_total, gpu_allocated, target_gpu_memory>>
    /\ UNCHANGED <<workerVars, serverVars, loaderVars, downloadVars>>

MemoryNext ==
    \/ \E r \in RequiredAmounts : CallCheckMemoryAvailable(r)
    \/ \E r \in RequiredAmounts : CallCheckMemoryRequirements(r)
    \/ CallOptimizeModelConfig
    \/ \E sample \in SampleBatchMemories, target \in TargetMemories :
            CallGetOptimalBatchSize(sample, target)

(***************************************************************************)
(* Memory manager: claims                                                  *)
(***************************************************************************)
\* C16 (as claimed): get_optimal_batch_size returns an integer >= 1 for every
\* device total, allocation, target budget and per-sample estimate.
C16_BatchSizeAtLeastOne ==
    call.op = "get_optimal_batch_size" =>
        (~call.returned.raised /\ call.returned.value >= 1)

\* C17 (as claimed): the availability checks return a boolean: false without a
\* device, and with a device true exactly when total - allocated >= required.
\* (The verdict of check_memory_available is the first member of its pair.)
Verdict(returned) ==
    IF returned.kind = "tuple" THEN returned.is_available ELSE returned.value

C17_AvailabilityVerdict ==
    call.op \in {"check_memory_available", "check_memory_requirements"} =>
        Verdict(call.returned) =
            (cuda_available /\ gpu_total - gpu_allocated >= call.required)

\* C18 (as claimed): the max_memory of the config equals
\* min(total - 0.5 GB, target budget).
C18_CeilingIsExactMin ==
    call.op = "optimize_model_config" =>
        call.returned.max_memory = Min(call.stats.gpu_total - SafetyMargin, target_gpu_memory)

\* C18 (amended): the max_memory of the config is min(total - 0.5 GB, target
\* budget) rounded to one decimal: a multiple of 0.1 GB at most 0.05 GB away
\* from the minimum.
C18_CeilingIsRoundedMin ==
    call.op = "optimize_model_config" =>
        LET exact == Min(call.stats.gpu_total - SafetyMargin, target_gpu_memory)
            text == call.returned.max_memory
        IN  /\ text % 10 = 0
            /\ text - exact <= 5 /\ exact - text <= 5

C18_Witness ==
    /\ call.op = "optimize_model_config"
    /\ cuda_available /\ gpu_total = 779 /\ target_gpu_memory = 733
    /\ call.returned.max_memory = 730

\* C19: the config sets load_in_8bit = True and use_cache = False exactly when
\* the device total is below 8 GB, and sets neither at or above it; the
\* reduced precision (float16) is set below the threshold.
C19_LowMemoryOptions ==
    call.op = "optimize_model_config" =>
        LET c == call.returned
            low == call.stats.gpu_total < LowMemoryThreshold
        IN  /\ low => (c.load_in_8bit = "True" /\ c.use_cache = "False"
                        /\ c.torch_dtype = "float16")
            /\ ~low => (c.load_in_8bit = "unset" /\ c.use_cache = "unset")
            /\ call.stats.gpu_total = (IF cuda_available THEN gpu_total ELSE 0)

C19_Witness ==
    /\ call.op = "optimize_model_config"
    /\ cuda_available /\ gpu_total = LowMemoryThreshold
    /\ call.returned.load_in_8bit = "unset"

\* C30 (as claimed): the max_memory of the config is never negative, for every
\* device state, no device included, and every target budget.
C30_CeilingNeverNegative ==
    call.op = "optimize_model_config" => call.returned.max_memory >= 0

(***************************************************************************)
(* load_audio_model                                                        *)
(***************************************************************************)
MinimumVram == 550               \* "if vram < 5.5"

LargeModel == "facebook/wav2vec2-large-robust-ft-swbd-300h"
BaseModel == "facebook/wav2vec2-base-960h"
AstModel == "MIT/ast-finetuned-audioset-10-10-0.4593"
ModelChoices == {LargeModel, BaseModel, AstModel}
FallbackModel == BaseModel

\* Mutation of CheckGpuCompatibility: the VRAM test is missing.
CheckGpuCompatibilityNoVram ==
    IF ~cuda_available THEN "CUDA not available" ELSE "passed"

\* check_gpu_compatibility: the RuntimeError it raises, or "passed".
CheckGpuCompatibility ==
    IF ~cuda_available THEN "CUDA not available"
    ELSE IF gpu_total < MinimumVram THEN "Insufficient VRAM"
    ELSE "passed"

\* "ast" in model_id.lower()
ModelClass(model_id) ==
    IF model_id = AstModel THEN "AutoModelForAudioClassification" ELSE "Wav2Vec2ForCTC"

NoOutcome == [kind |-> "none", detail |-> ""]
Raised(exception, detail) == [kind |-> exception, detail |-> detail]
ReturnedModel(model_id) == [kind |-> "model", detail |-> model_id]

LoaderIdle ==
    /\ model_choice = LargeModel
    /\ loader_pc = "start"
    /\ from_pretrained = <<>>
    /\ loader_outcome = NoOutcome

LoaderInit ==
    /\ model_choice \in ModelChoices
    /\ loader_pc = "start"
    /\ from_pretrained = <<>>
    /\ loader_outcome = NoOutcome

\* The device load_audio_model runs on.
DeviceInit ==
    /\ cuda_available \in BOOLEAN
    /\ gpu_total \in IF cuda_available THEN MinTotal..MaxTotal ELSE {0}
    /\ gpu_allocated = 0
    /\ target_gpu_memory = DefaultTargetGpuMemory
    /\ call = NoCall

\* load_audio_model: check_gpu_compatibility(), called before the try.
GateCheck ==
    /\ loader_pc = "start"
    /\ IF CheckGpuCompatibility = "passed"
       THEN loader_pc' = "load" /\ UNCHANGED loader_outcome
       ELSE /\ loader_pc' = "raised"
            /\ loader_outcome' = Raised("RuntimeError", CheckGpuCompatibility)
    /\ UNCHANGED <<model_choice, from_pretrained>>
    /\ UNCHANGED <<workerVars, serverVars, memoryVars, downloadVars>>

\* The try block: model_class.from_pretrained(model_id, ...), .to("cuda"),
\* .half(), .eval(); ok says whether all of it succeeded.
LoadRequested(ok) ==
    /\ loader_pc = "load"
    /\ from_pretrained' = Append(from_pretrained,
            [class |-> ModelClass(model_choice), model_id |-> model_choice])
    /\ IF ok
       THEN loader_pc' = "returned" /\ loader_outcome' = ReturnedModel(model_choice)
       ELSE loader_pc' = "fallback" /\ UNCHANGED loader_outcome
    /\ UNCHANGED model_choice
    /\ UNCHANGED <<workerVars, serverVars, memoryVars, downloadVars>>

\* The except block: Wav2Vec2ForCTC.from_pretrained(fallback_model, ...); its
\* failure is raised to the caller.
LoadFallback(ok) ==
    /\ loader_pc = "fallback"
    /\ from_pretrained' = Append(from_pretrained,
            [class |-> "Wav2Vec2ForCTC", model_id |-> FallbackModel])
    /\ IF ok
       THEN loader_pc' = "returned" /\ loader_outcome' = ReturnedModel(FallbackModel)
       ELSE loader_pc' = "raised" /\ loader_outcome' = Raised("Exception", "fallback failed")
    /\ UNCHANGED model_choice
    /\ UNCHANGED <<workerVars, serverVars, memoryVars, downloadVars>>

LoaderNext ==
    \/ GateCheck
    \/ \E ok \in BOOLEAN : LoadRequested(ok)
    \/ \E ok \in BOOLEAN : LoadFallback(ok)

(***************************************************************************)
(* load_audio_model: claims                                                *)
(***************************************************************************)
\* The device does not meet the gate: no device, or a total below 5.5 GB.
GateRejects == ~cuda_available \/ gpu_total < MinimumVram

\* C26: the gate runs before any load attempt: no from_pretrained call,
\* requested or fallback, is made before the gate has run, and when the gate
\* rejects none is ever made and load_audio_model raises RuntimeError.
C26_GateBeforeAnyLoad ==
    /\ loader_pc = "start" => from_pretrained = <<>>
    /\ GateRejects =>
          /\ from_pretrained = <<>>
          /\ loader_pc \in {"start", "raised"}
          /\ loader_pc = "raised" => loader_outcome.kind = "RuntimeError"
    /\ from_pretrained # <<>> => ~GateRejects

C26_Witness ==
    /\ cuda_available /\ gpu_total = 549
    /\ loader_pc = "raised" /\ loader_outcome = Raised("RuntimeError", "Insufficient VRAM")
    /\ from_pretrained = <<>>

(***************************************************************************)
(* download_file                                                           *)
(*                                                                         *)
(* A file is the sequence of its bytes; one byte of the model stands for   *)
(* one chunk of iter_content.  The remote file of n chunks is <<1, .., n>>. *)
(***************************************************************************)
MaxRetries == 5                  \* max_retries = 5

RemoteFile(n) == [i \in 1..n |-> i]
ErrorBody == <<0>>               \* the body of an error response: not bytes of the file

Bool(b) == [kind |-> "bool", value |-> b]
NoRange == [range |-> FALSE, offset |-> 0]
Range(offset) == [range |-> TRUE, offset |-> offset]     \* {'Range': f'bytes={first_byte}-'}
NoFile == [exists |-> FALSE, bytes |-> <<>>]
File(bytes) == [exists |-> TRUE, bytes |-> bytes]

DownloadIdle ==
    /\ remote = <<>> /\ destination = NoFile
    /\ first_byte = 0 /\ headers = NoRange /\ mode = "wb"
    /\ retry_count = 0 /\ requests_made = 0
    /\ download_pc = "start" /\ download_result = None

\* The destination is absent or holds the first bytes of the remote file,
\* left by an earlier run.
DownloadInit ==
    /\ remote \in {RemoteFile(n) : n \in 1..RemoteSize}
    /\ destination \in {NoFile} \cup {File(SubSeq(remote, 1, k)) : k \in 0..Len(remote)}
    /\ first_byte = 0 /\ headers = NoRange /\ mode = "wb"
    /\ retry_count = 0 /\ requests_made = 0
    /\ download_pc = "start" /\ download_result = None

\* Lines 15-29: resume an existing file, or start a new one.
DownloadStart ==
    /\ download_pc = "start"
    /\ IF destination.exists
       THEN /\ first_byte' = Len(destination.bytes)
            /\ headers' = Range(Len(destination.bytes))
            /\ mode' = "ab"
       ELSE /\ first_byte' = 0
            /\ headers' = NoRange
            /\ mode' = "wb"
    /\ retry_count' = 0
    /\ download_pc' = "loop"
    /\ UNCHANGED <<remote, destination, requests_made, download_result>>
    /\ UNCHANGED <<workerVars, serverVars, memoryVars, loaderVars>>

\* What a server can answer to a GET with the given headers: the whole file
\* with 200, the requested range with 206, or 416 when the range starts at or
\* after the end of the file.
ServerResponses(hdrs) ==
    {[status_code |-> 200, body |-> remote]}
    \cup (IF hdrs.range /\ hdrs.offset < Len(remote)
          THEN {[status_code |-> 206, body |-> SubSeq(remote, hdrs.offset + 1, Len(remote))]}
          ELSE {})
    \cup (IF hdrs.range /\ hdrs.offset >= Len(remote)
          THEN {[status_code |-> 416, body |-> ErrorBody]}
          ELSE {})

\* open(destination, mode)
Open(file, m) == IF m = "wb" THEN File(<<>>) ELSE File(file.bytes)

\* f.write(chunk) for the first k chunks of the body
Write(file, body, k) == File(file.bytes \o SubSeq(body, 1, k))

\* requests.get raises before a response is received.
RequestFails ==
    /\ download_pc = "loop" /\ retry_count < MaxRetries
    /\ requests_made' = requests_made + 1
    /\ retry_count' = retry_count + 1
    /\ UNCHANGED <<remote, destination, first_byte, headers, mode, download_pc, download_result>>
    /\ UNCHANGED <<workerVars, serverVars, memoryVars, loaderVars>>

\* One pass of the while loop in which requests.get returns a response.
\* has_length: the response has a Content-Length header; received: the chunks
\* iter_content yields before the connection breaks (all of them when it
\* does not).
Attempt(response, has_length, received) ==
    LET content_length == IF has_length THEN Len(response.body) ELSE 0
        resumed == first_byte > 0 /\ response.status_code = 206
        total_size == IF resumed THEN content_length + first_byte ELSE content_length
        opened == Open(destination, mode)
    IN  /\ download_pc = "loop" /\ retry_count < MaxRetries
        /\ received \in 0..Len(response.body)
        /\ requests_made' = requests_made + 1
        /\ first_byte' = IF resumed THEN first_byte ELSE 0
        /\ IF received > 0 /\ total_size = 0
           THEN \* percent = downloaded / total_size * 100 after the first write
                /\ destination' = Write(opened, response.body, 1)
                /\ download_pc' = "raised"
                /\ download_result' = Str("ZeroDivisionError")
                /\ UNCHANGED retry_count
           ELSE IF received < Len(response.body)
           THEN \* iter_content raises a RequestException
                /\ destination' = Write(opened, response.body, received)
                /\ retry_count' = retry_count + 1
                /\ UNCHANGED <<download_pc, download_result>>
           ELSE /\ destination' = Write(opened, response.body, received)
                /\ download_pc' = "returned"
                /\ download_result' = Bool(TRUE)
                /\ UNCHANGED retry_count
        /\ UNCHANGED <<remote, headers, mode>>
        /\ UNCHANGED <<workerVars, serverVars, memoryVars, loaderVars>>

\* The while condition fails: "Maximum retries reached", return False.
GiveUp ==
    /\ download_pc = "loop" /\ retry_count >= MaxRetries
    /\ download_pc' = "returned"
    /\ download_result' = Bool(FALSE)
    /\ UNCHANGED <<remote, destination, first_byte, headers, mode, retry_count, requests_made>>
    /\ UNCHANGED <<workerVars, serverVars, memoryVars, loaderVars>>

DownloadNext ==
    \/ DownloadStart
    \/ RequestFails
    \/ \E response \in ServerResponses(headers), has_length \in BOOLEAN,
          received \in 0..RemoteSize : Attempt(response, has_length, received)
    \/ GiveUp

(***************************************************************************)
(* download_file: claims                                                   *)
(***************************************************************************)
\* C27 (as claimed): download_file never leaves by an exception and makes at
\* most 5 requests; when it has returned, the result is True, or it is False
\* and exactly 5 attempts have failed.
C27_ReturnsBooleanWithinFiveAttempts ==
    /\ download_pc # "raised"
    /\ requests_made <= MaxRetries
    /\ download_pc = "returned" =>
          \/ download_result = Bool(TRUE)
          \/ download_result = Bool(FALSE) /\ retry_count = 5 /\ requests_made = 5

\* C28 (as claimed): whenever download_file has returned True, the bytes of
\* the destination file are exactly the bytes of the remote file.
C28_DestinationEqualsRemote ==
    download_result = Bool(TRUE) => destination.bytes = remote

(***************************************************************************)
(* Specifications                                                          *)
(***************************************************************************)
\* The components run as separate processes or separate calls; each is
\* modelled on its own, with the others at rest.
WorkerIdle ==
    /\ stdin = <<>> /\ pos = 0 /\ pc = "read" /\ request = NoRequest
    /\ result = None /\ error = None
    /\ processor = MockGAMAProcessor(0, DefaultModelPath)
    /\ stdout = <<>> /\ stderr = <<"started">>

InitWorker == WorkerInit /\ ServerInit /\ MemoryIdle /\ LoaderIdle /\ DownloadIdle
InitServer == WorkerIdle /\ ServerInit /\ MemoryIdle /\ LoaderIdle /\ DownloadIdle
InitMemory == WorkerIdle /\ ServerInit /\ MemoryInit /\ LoaderIdle /\ DownloadIdle
InitLoader == WorkerIdle /\ ServerInit /\ DeviceInit /\ LoaderInit /\ DownloadIdle
InitDownload == WorkerIdle /\ ServerInit /\ MemoryIdle /\ LoaderIdle /\ DownloadInit

SpecWorker == InitWorker /\ [][WorkerNext]_vars
SpecServer == InitServer /\ [][ServerNext]_vars
SpecMemory == InitMemory /\ [][MemoryNext]_vars
SpecLoader == InitLoader /\ [][LoaderNext]_vars
SpecDownload == InitDownload /\ [][DownloadNext]_vars

====
